---------------------------- MODULE Spec2Model ----------------------------
(***************************************************************************)
(* A model of the interactive file browser of kaput-cli (src/browse):      *)
(* the BrowserApp session state (app.rs), the key handler (events.rs) and   *)
(* the drive loop with its worker bridge (mod.rs).                          *)
(*                                                                          *)
(* The session is one record, `app`, with the fields of struct BrowserApp;  *)
(* every method of BrowserApp is an operator from a session record to the   *)
(* session record after the call.  Strings are sequences of one-character   *)
(* strings, so that to_lowercase and contains are computed.  The animation  *)
(* counter `tick` and the spinner label are display-only and not modelled.  *)
(***************************************************************************)
EXTENDS Integers, Sequences, FiniteSets, TLC

(* ------------------------------ bounds -------------------------------- *)

\* Longest breadcrumb stack the user builds under Spec, where every key is
\* delivered.
MaxDepth == 2

\* Longest breadcrumb stack the user builds under SpecDeep, where the two
\* sort keys are not pressed.
DeepDepth == 3

\* Longest query the model types into the Find / SearchInput modals.
MaxQuery == 1

\* Rows of the file list that fit on the terminal.
VisibleRows == 1

(* ------------------------- program constants -------------------------- *)

\* move_page_up / move_page_down step.
PageStep == 10

\* build_path_parts depth guard.
MaxPathDepth == 256

\* Folder id of the root, and the id of the virtual search-results crumb.
RootId == 0

SearchId == -1

(* ------------------------------ strings ------------------------------- *)

\* char::to_lowercase on the characters the model uses.
LowerChar(c) ==
    CASE c = "A" -> "a"
      [] c = "B" -> "b"
      [] OTHER   -> c

\* str::to_lowercase
to_lowercase(s) == [i \in 1..Len(s) |-> LowerChar(s[i])]

\* str::contains: `needle` occurs in `hay` as a contiguous substring.
contains(hay, needle) ==
    \E k \in 0..(Len(hay) - Len(needle)) :
        \A i \in 1..Len(needle) : hay[k + i] = needle[i]

\* Byte order of the (lower-case) characters.
CharRank(c) ==
    CASE c = "a" -> 97
      [] c = "b" -> 98
      [] c = "A" -> 65
      [] c = "B" -> 66
      [] OTHER   -> 0

\* Ord::cmp of two integers: -1 (Less), 0 (Equal), 1 (Greater).
CmpInt(x, y) == IF x < y THEN -1 ELSE IF x > y THEN 1 ELSE 0

\* Ord::cmp of two strings: lexicographic, a proper prefix is Less.
RECURSIVE CmpStr(_, _)
CmpStr(s, t) ==
    IF s = <<>> /\ t = <<>> THEN 0
    ELSE IF s = <<>> THEN -1
    ELSE IF t = <<>> THEN 1
    ELSE IF CharRank(Head(s)) # CharRank(Head(t))
         THEN CmpInt(CharRank(Head(s)), CharRank(Head(t)))
         ELSE CmpStr(Tail(s), Tail(t))

\* format!("Search: {}", query)
SearchName(query) == <<"Search: ">> \o query

(* --------------------------- remote entries --------------------------- *)

\* put::files::File records the remote store returns in this model.
F1 == [id |-> 1, name |-> <<"b">>, file_type |-> "FOLDER", parent_id |-> 0,
       size |-> 0, created_at |-> 2, updated_at |-> 1]

F2 == [id |-> 2, name |-> <<"A", "b">>, file_type |-> "VIDEO", parent_id |-> 1,
       size |-> 1, created_at |-> 1, updated_at |-> 1]

F3 == [id |-> 3, name |-> <<"a">>, file_type |-> "TEXT", parent_id |-> 0,
       size |-> 1, created_at |-> 1, updated_at |-> 2]

\* The entry vectors a list or search call may answer with (in remote order).
Listings == { <<>>, <<F3>>, <<F1, F2>> }

\* The folder name a successful list call reports for the listed folder.
ParentName == <<"b">>

(* ------------------------------- sorting ------------------------------ *)

\* The comparator closure of sort_files.
SortCmp(field, dir, a, b) ==
    LET ord == CASE field = "Name" -> CmpStr(to_lowercase(a.name), to_lowercase(b.name))
                 [] field = "Size" -> CmpInt(a.size, b.size)
                 [] field = "Date" -> CmpInt(a.created_at, b.created_at)
                 [] OTHER          -> CmpInt(a.updated_at, b.updated_at)
    IN IF dir = "Desc" THEN 0 - ord ELSE ord

\* One step of a stable sort: x goes before the first element greater than it.
RECURSIVE InsertStable(_, _, _, _)
InsertStable(x, s, field, dir) ==
    IF s = <<>> THEN <<x>>
    ELSE IF SortCmp(field, dir, Head(s), x) > 0 THEN <<x>> \o s
    ELSE <<Head(s)>> \o InsertStable(x, Tail(s), field, dir)

\* slice::sort_by (stable) with the comparator of sort_files.
RECURSIVE StableSort(_, _, _)
StableSort(s, field, dir) ==
    IF s = <<>> THEN <<>>
    ELSE InsertStable(s[Len(s)], StableSort(SubSeq(s, 1, Len(s) - 1), field, dir),
                      field, dir)


(* --------------------------- session record --------------------------- *)

\* Option<T>: None is the empty sequence, Some(v) the one-element sequence.
None == <<>>

Some(v) == <<v>>

\* usize::saturating_sub
saturating_sub(x, y) == IF x > y THEN x - y ELSE 0

\* usize::min
Min(x, y) == IF x < y THEN x ELSE y

\* struct BreadcrumbEntry
BreadcrumbEntry(id, name, saved_index, saved_offset) ==
    [id |-> id, name |-> name, saved_index |-> saved_index, saved_offset |-> saved_offset]

\* The ModalState variants.
ModalNone == [kind |-> "None"]

ModalLoading == [kind |-> "Loading"]

ModalConfirmDelete(file_id, file_name) ==
    [kind |-> "ConfirmDelete", file_id |-> file_id, file_name |-> file_name]

ModalFileActions(file_id, file_name, file_type, selected) ==
    [kind |-> "FileActions", file_id |-> file_id, file_name |-> file_name,
     file_type |-> file_type, selected |-> selected]

ModalFind(query) == [kind |-> "Find", query |-> query]

ModalSearchInput(query) == [kind |-> "SearchInput", query |-> query]

ModalError(msg) == [kind |-> "Error", msg |-> msg]

ModalSuccess(msg) == [kind |-> "Success", msg |-> msg]

\* The PendingAction variants.
PendingNone == [kind |-> "None"]

PendingDownload(file_id) == [kind |-> "Download", file_id |-> file_id]

PendingSearch(query) == [kind |-> "Search", query |-> query]

PendingGoToFolder(parent_id, file_id) ==
    [kind |-> "GoToFolder", parent_id |-> parent_id, file_id |-> file_id]

PendingDelete(file_id) == [kind |-> "Delete", file_id |-> file_id]

PendingCopyPath(file_name, parent_id) ==
    [kind |-> "CopyPath", file_name |-> file_name, parent_id |-> parent_id]

\* BrowserApp::new
new ==
    [current_folder_id |-> RootId,
     breadcrumbs       |-> <<BreadcrumbEntry(RootId, <<"My Files">>, 0, 0)>>,
     files             |-> <<>>,
     selected_index    |-> 0,
     app_state         |-> "Browsing",
     modal             |-> ModalLoading,
     pending_action    |-> PendingNone,
     sort_field        |-> "Name",
     sort_direction    |-> "Asc",
     list_offset       |-> 0,
     restore_index     |-> None,
     restore_offset    |-> None,
     needs_reload      |-> TRUE,
     last_search       |-> None,
     is_search_results |-> FALSE,
     pending_select_id |-> None]

\* Vec::last_mut / Vec::last on the breadcrumbs.
Top(a) == a.breadcrumbs[Len(a.breadcrumbs)]

\* The breadcrumbs with the cursor and scroll offset saved into the top entry.
SaveIntoTop(a) ==
    [a.breadcrumbs EXCEPT ![Len(a.breadcrumbs)] =
        [@ EXCEPT !.saved_index = a.selected_index, !.saved_offset = a.list_offset]]

\* BrowserApp::enter_folder
enter_folder(a, id, name) ==
    [a EXCEPT !.breadcrumbs = Append(SaveIntoTop(a), BreadcrumbEntry(id, name, 0, 0)),
              !.current_folder_id = id,
              !.files = <<>>,
              !.selected_index = 0,
              !.modal = ModalLoading]

\* go_back with the guard `len > 1` weakened to `len > 0`: the root is popped.
go_back_pops_root(a) ==
    IF Len(a.breadcrumbs) > 1
    THEN LET crumbs == SubSeq(a.breadcrumbs, 1, Len(a.breadcrumbs) - 1)
             parent == crumbs[Len(crumbs)]
         IN [a EXCEPT !.breadcrumbs = crumbs,
                      !.is_search_results = FALSE,
                      !.current_folder_id = parent.id,
                      !.restore_index = Some(parent.saved_index),
                      !.restore_offset = Some(parent.saved_offset),
                      !.files = <<>>,
                      !.selected_index = 0,
                      !.modal = ModalLoading]
    ELSE [a EXCEPT !.breadcrumbs = <<>>,
                   !.files = <<>>,
                   !.selected_index = 0,
                   !.modal = ModalLoading]

\* BrowserApp::go_back
go_back(a) ==
    IF Len(a.breadcrumbs) > 1
    THEN LET crumbs == SubSeq(a.breadcrumbs, 1, Len(a.breadcrumbs) - 1)
             parent == crumbs[Len(crumbs)]
         IN [a EXCEPT !.breadcrumbs = crumbs,
                      !.is_search_results = FALSE,
                      !.current_folder_id = parent.id,
                      !.restore_index = Some(parent.saved_index),
                      !.restore_offset = Some(parent.saved_offset),
                      !.files = <<>>,
                      !.selected_index = 0,
                      !.modal = ModalLoading]
    ELSE a

\* BrowserApp::sort_files
sort_files(a) == [a EXCEPT !.files = StableSort(a.files, a.sort_field, a.sort_direction)]

\* Iterator::position(|f| f.id == select_id).unwrap_or(0), as a 0-based index.
PositionOrZero(files, select_id) ==
    IF \E i \in 1..Len(files) : files[i].id = select_id
    THEN (CHOOSE i \in 1..Len(files) :
             /\ files[i].id = select_id
             /\ \A j \in 1..(i - 1) : files[j].id # select_id) - 1
    ELSE 0

\* set_files without `.min(len - 1)` on the restored cursor.
set_files_unclamped(a, files) ==
    LET s    == [a EXCEPT !.files = StableSort(files, a.sort_field, a.sort_direction)]
        last == saturating_sub(Len(s.files), 1)
    IN IF s.pending_select_id # None
       THEN [s EXCEPT !.pending_select_id = None,
                      !.selected_index = PositionOrZero(s.files, s.pending_select_id[1]),
                      !.restore_offset = None,
                      !.modal = ModalNone]
       ELSE [s EXCEPT !.restore_index = None,
                      !.selected_index =
                          IF s.restore_index = None THEN 0 ELSE s.restore_index[1],
                      !.list_offset =
                          IF s.restore_offset = None THEN @ ELSE Min(s.restore_offset[1], last),
                      !.restore_offset = None,
                      !.modal = ModalNone]

\* BrowserApp::set_files
set_files(a, files) ==
    LET s    == sort_files([a EXCEPT !.files = files])
        last == saturating_sub(Len(s.files), 1)
    IN IF s.pending_select_id # None
       THEN [s EXCEPT !.pending_select_id = None,
                      !.selected_index = PositionOrZero(s.files, s.pending_select_id[1]),
                      !.restore_offset = None,
                      !.modal = ModalNone]
       ELSE [s EXCEPT !.restore_index = None,
                      !.selected_index =
                          Min(IF s.restore_index = None THEN 0 ELSE s.restore_index[1], last),
                      !.list_offset =
                          IF s.restore_offset = None THEN @ ELSE Min(s.restore_offset[1], last),
                      !.restore_offset = None,
                      !.modal = ModalNone]

\* enter_search_results without the `if self.is_search_results` branch: a
\* virtual entry is pushed every time.
enter_search_results_always_push(a, query, files) ==
    [a EXCEPT !.breadcrumbs = Append(SaveIntoTop(a),
                                     BreadcrumbEntry(SearchId, SearchName(query), 0, 0)),
              !.is_search_results = TRUE,
              !.files = files,
              !.selected_index = 0,
              !.list_offset = 0,
              !.modal = ModalNone]

\* BrowserApp::enter_search_results
enter_search_results(a, query, files) ==
    LET crumbs ==
            IF a.is_search_results
            THEN [a.breadcrumbs EXCEPT ![Len(a.breadcrumbs)].name = SearchName(query)]
            ELSE Append(SaveIntoTop(a), BreadcrumbEntry(SearchId, SearchName(query), 0, 0))
    IN [a EXCEPT !.breadcrumbs = crumbs,
                 !.is_search_results = TRUE,
                 !.files = files,
                 !.selected_index = 0,
                 !.list_offset = 0,
                 !.modal = ModalNone]

\* BrowserApp::reset_to_root
reset_to_root(a) ==
    [a EXCEPT !.breadcrumbs = <<[a.breadcrumbs[1] EXCEPT !.saved_index = 0, !.saved_offset = 0]>>,
              !.is_search_results = FALSE,
              !.current_folder_id = RootId]

\* BrowserApp::navigate_to_folder
navigate_to_folder(a, parent_id, file_id) ==
    LET r == reset_to_root(a)
        p == IF parent_id # RootId
             THEN [r EXCEPT !.breadcrumbs =
                                Append(@, BreadcrumbEntry(parent_id, <<"...">>, 0, 0)),
                            !.current_folder_id = parent_id]
             ELSE r
    IN [p EXCEPT !.pending_select_id = Some(file_id),
                 !.files = <<>>,
                 !.selected_index = 0,
                 !.modal = ModalLoading]

\* BrowserApp::cycle_sort_field
cycle_sort_field(a) ==
    LET f == CASE a.sort_field = "Name" -> "Size"
               [] a.sort_field = "Size" -> "Date"
               [] a.sort_field = "Date" -> "Modified"
               [] OTHER                 -> "Name"
    IN [sort_files([a EXCEPT !.sort_field = f]) EXCEPT !.selected_index = 0]

\* BrowserApp::toggle_sort_direction
toggle_sort_direction(a) ==
    LET d == IF a.sort_direction = "Asc" THEN "Desc" ELSE "Asc"
    IN [sort_files([a EXCEPT !.sort_direction = d]) EXCEPT !.selected_index = 0]

\* BrowserApp::selected_file: Some(file) or None.
selected_file(a) ==
    IF a.selected_index < Len(a.files) THEN Some(a.files[a.selected_index + 1]) ELSE None

\* BrowserApp::save_position_for_reload
save_position_for_reload(a) ==
    [a EXCEPT !.restore_index = Some(a.selected_index),
              !.restore_offset = Some(a.list_offset)]

\* BrowserApp::move_up
move_up(a) ==
    IF a.selected_index > 0 THEN [a EXCEPT !.selected_index = @ - 1] ELSE a

\* BrowserApp::move_down
move_down(a) ==
    IF a.files # <<>> /\ a.selected_index < Len(a.files) - 1
    THEN [a EXCEPT !.selected_index = @ + 1]
    ELSE a

\* BrowserApp::move_page_up
move_page_up(a) == [a EXCEPT !.selected_index = saturating_sub(@, PageStep)]

\* BrowserApp::move_page_down
move_page_down(a) ==
    IF a.files # <<>>
    THEN [a EXCEPT !.selected_index = Min(@ + PageStep, Len(a.files) - 1)]
    ELSE a

(* ------------------------------- finder ------------------------------ *)

\* The scan with `1..n` for `1..=n`: the cursor's own position is not probed.
RECURSIVE FindScan_exclusive(_, _, _, _)
FindScan_exclusive(files, selected_index, q, offset) ==
    LET n == Len(files)
        i == (selected_index + offset) % n
    IN IF offset > n - 1
       THEN [found |-> FALSE, index |-> selected_index, probes |-> n - 1]
       ELSE IF contains(to_lowercase(files[i + 1].name), q)
            THEN [found |-> TRUE, index |-> i, probes |-> offset]
            ELSE FindScan_exclusive(files, selected_index, q, offset + 1)

\* The loop `for offset in 1..=n` of find_next_with, entered at `offset` with the
\* lower-cased query q: whether a match was found, the cursor afterwards and
\* the number of positions probed.
RECURSIVE FindScan(_, _, _, _)
FindScan(files, selected_index, q, offset) ==
    LET n == Len(files)
        i == (selected_index + offset) % n
    IN IF offset > n
       THEN [found |-> FALSE, index |-> selected_index, probes |-> n]
       ELSE IF contains(to_lowercase(files[i + 1].name), q)
            THEN [found |-> TRUE, index |-> i, probes |-> offset]
            ELSE FindScan(files, selected_index, q, offset + 1)

\* find_next_with without `query.to_lowercase()`.
FindOutcome_case_sensitive(a, query) ==
    IF query = <<>> \/ a.files = <<>>
    THEN [found |-> FALSE, index |-> a.selected_index, probes |-> 0]
    ELSE FindScan(a.files, a.selected_index, query, 1)

\* find_next_with with `0..n` for `1..=n`: the scan starts on the cursor.
FindOutcome_from_cursor(a, query) ==
    IF query = <<>> \/ a.files = <<>>
    THEN [found |-> FALSE, index |-> a.selected_index, probes |-> 0]
    ELSE FindScan(a.files, a.selected_index, to_lowercase(query), 0)

\* BrowserApp::find_next_with, as the scan's outcome.
FindOutcome(a, query) ==
    IF query = <<>> \/ a.files = <<>>
    THEN [found |-> FALSE, index |-> a.selected_index, probes |-> 0]
    ELSE FindScan(a.files, a.selected_index, to_lowercase(query), 1)

\* BrowserApp::find_next_with: the session after the call.
find_next_with(a, query) == [a EXCEPT !.selected_index = FindOutcome(a, query).index]

\* BrowserApp::find_next_with: the value returned.
find_next_with_ret(a, query) == FindOutcome(a, query).found

\* BrowserApp::find_next: the session after the call.
find_next(a) ==
    IF a.last_search # None THEN find_next_with(a, a.last_search[1]) ELSE a

(* ----------------------------- file actions --------------------------- *)

\* struct FileAction
FileAction(label, key) == [label |-> label, key |-> key]

\* file_actions_for
file_actions_for(file_type, in_search_results) ==
    LET actions ==
            IF file_type = "FOLDER"
            THEN << FileAction("Download as zip", "z"),
                    FileAction("Open in browser", "b"),
                    FileAction("Copy path", "p"),
                    FileAction("Copy folder ID", "i") >>
            ELSE IF file_type = "VIDEO"
            THEN << FileAction("Copy URL", "c"),
                    FileAction("Copy Stream URL", "s"),
                    FileAction("Download", "d"),
                    FileAction("Open in browser", "b"),
                    FileAction("Copy path", "p"),
                    FileAction("Copy file ID", "i") >>
            ELSE << FileAction("Copy URL", "c"),
                    FileAction("Download", "d"),
                    FileAction("Open in browser", "b"),
                    FileAction("Copy path", "p"),
                    FileAction("Copy file ID", "i") >>
    IN IF in_search_results
       THEN Append(actions, FileAction("Go to folder", "g"))
       ELSE actions

\* What the collaborators called inside key handling and result handling
\* answer: the share-URL call, the clipboard and the OS browser launcher.
\* All answer well, or one of them fails.
DefaultEnv == [url_ok |-> TRUE, clip |-> "ok", spawn_ok |-> TRUE]

Env ==
    { DefaultEnv,
      [DefaultEnv EXCEPT !.url_ok = FALSE],
      [DefaultEnv EXCEPT !.clip = "set_failed"],
      [DefaultEnv EXCEPT !.clip = "unavailable"],
      [DefaultEnv EXCEPT !.spawn_ok = FALSE] }

\* copy_to_clipboard
copy_to_clipboard(a, success_msg, env) ==
    CASE env.clip = "ok"         -> [a EXCEPT !.modal = ModalSuccess(success_msg)]
      [] env.clip = "set_failed" -> [a EXCEPT !.modal = ModalError("Clipboard error: ")]
      [] OTHER                   -> [a EXCEPT !.modal = ModalError("Clipboard unavailable: ")]

\* open_in_browser
open_in_browser(a, env) ==
    IF env.spawn_ok
    THEN [a EXCEPT !.modal = ModalSuccess("Opening in browser...")]
    ELSE [a EXCEPT !.modal = ModalError("Could not open browser: ")]

\* Iterator::find(|f| f.id == file_id) over the snapshot: Some(file) or None.
FindById(files, file_id) ==
    IF \E i \in 1..Len(files) : files[i].id = file_id
    THEN Some(files[CHOOSE i \in 1..Len(files) :
                        /\ files[i].id = file_id
                        /\ \A j \in 1..(i - 1) : files[j].id # file_id])
    ELSE None

\* execute_file_action
execute_file_action(a, action, file_id, env) ==
    CASE action = "Copy URL" ->
            IF env.url_ok
            THEN copy_to_clipboard(a, "URL copied!", env)
            ELSE [a EXCEPT !.modal = ModalError("Failed to get URL: ")]
      [] action = "Copy Stream URL" -> copy_to_clipboard(a, "Stream URL copied!", env)
      [] action = "Download" -> [a EXCEPT !.pending_action = PendingDownload(file_id)]
      [] action = "Open in browser" -> open_in_browser(a, env)
      [] action = "Copy file ID" -> copy_to_clipboard(a, "File ID copied!", env)
      [] action = "Copy path" ->
            LET f == FindById(a.files, file_id)
            IN IF f = None
               THEN [a EXCEPT !.modal = ModalError("File not found for path lookup.")]
               ELSE [a EXCEPT !.pending_action = PendingCopyPath(f[1].name, f[1].parent_id),
                              !.modal = ModalLoading]
      [] action = "Download as zip" -> [a EXCEPT !.pending_action = PendingDownload(file_id)]
      [] action = "Copy folder ID" -> copy_to_clipboard(a, "Folder ID copied!", env)
      [] action = "Go to folder" ->
            LET f == FindById(a.files, file_id)
                parent_id == IF f = None THEN 0 ELSE f[1].parent_id
            IN [a EXCEPT !.pending_action = PendingGoToFolder(parent_id, file_id)]
      [] OTHER -> a

(* ------------------------------ key events ---------------------------- *)

\* A KeyEvent: the key code, the character of KeyCode::Char, and whether the
\* CONTROL modifier is held.
Key(code, ch, ctrl) == [code |-> code, ch |-> ch, ctrl |-> ctrl]

\* The pattern KeyCode::Char(c), which matches whatever the modifiers are.
IsChar(key, c) == key.code = "Char" /\ key.ch = c

\* The characters the model types into the Find and SearchInput modals.
TypedChars == {"B"}

\* The key events the model delivers.
Keys ==
    { Key("Char", c, FALSE) :
        c \in {"q", "k", "j", "/", "n", "N", "s", "r", "x", "y", "Y", "a", "B",
               "z", "b", "p", "i", "c", "d", "g"} }
    \cup { Key("Char", c, TRUE) : c \in {"c", "u", "d", "o", "f"} }
    \cup { Key(code, "", FALSE) :
             code \in {"Up", "Down", "Enter", "Esc", "Left", "Backspace", "Tab"} }

\* String::pop
pop(query) == IF query = <<>> THEN query ELSE SubSeq(query, 1, Len(query) - 1)

\* The ConfirmDelete arm with the delete in the `_` arm: every key that is not
\* n, N or Esc confirms.
KeyConfirmDelete_any_key(a, key) ==
    IF IsChar(key, "n") \/ IsChar(key, "N") \/ key.code = "Esc"
    THEN [a EXCEPT !.modal = ModalNone]
    ELSE [save_position_for_reload(a) EXCEPT
              !.pending_action = PendingDelete(a.modal.file_id),
              !.modal = ModalLoading]

\* handle_key, the ConfirmDelete arm.
KeyConfirmDelete(a, key) ==
    IF IsChar(key, "y") \/ IsChar(key, "Y")
    THEN [save_position_for_reload(a) EXCEPT
             !.pending_action = PendingDelete(a.modal.file_id),
             !.modal = ModalLoading]
    ELSE IF IsChar(key, "n") \/ IsChar(key, "N") \/ key.code = "Esc"
    THEN [a EXCEPT !.modal = ModalNone]
    ELSE a

\* The FileActions arm with Down stepping past the last action instead of
\* wrapping round.
KeyFileActions_no_wrap(a, key, env) ==
    LET m        == a.modal
        actions  == file_actions_for(m.file_type, a.is_search_results)
        n        == Len(actions)
        shortcut == { i \in 1..n : key.code = "Char" /\ actions[i].key = key.ch }
    IN IF key.code = "Up" \/ IsChar(key, "k")
       THEN [a EXCEPT !.modal.selected = IF m.selected = 0 THEN n - 1 ELSE m.selected - 1]
       ELSE IF key.code = "Down" \/ IsChar(key, "j")
       THEN [a EXCEPT !.modal.selected = m.selected + 1]
       ELSE IF key.code = "Enter"
       THEN execute_file_action([a EXCEPT !.modal = ModalNone],
                                actions[m.selected + 1].label, m.file_id, env)
       ELSE IF key.code = "Char"
       THEN IF shortcut # {}
            THEN execute_file_action(
                     [a EXCEPT !.modal = ModalNone],
                     actions[CHOOSE i \in shortcut : \A j \in shortcut : i <= j].label,
                     m.file_id, env)
            ELSE a
       ELSE IF key.code = "Esc"
       THEN [a EXCEPT !.modal = ModalNone]
       ELSE a

\* handle_key, the FileActions arm.
KeyFileActions(a, key, env) ==
    LET m        == a.modal
        actions  == file_actions_for(m.file_type, a.is_search_results)
        n        == Len(actions)
        shortcut == { i \in 1..n : key.code = "Char" /\ actions[i].key = key.ch }
    IN IF key.code = "Up" \/ IsChar(key, "k")
       THEN [a EXCEPT !.modal.selected = IF m.selected = 0 THEN n - 1 ELSE m.selected - 1]
       ELSE IF key.code = "Down" \/ IsChar(key, "j")
       THEN [a EXCEPT !.modal.selected = (m.selected + 1) % n]
       ELSE IF key.code = "Enter"
       THEN execute_file_action([a EXCEPT !.modal = ModalNone],
                                actions[m.selected + 1].label, m.file_id, env)
       ELSE IF key.code = "Char"
       THEN IF shortcut # {}
            THEN execute_file_action(
                     [a EXCEPT !.modal = ModalNone],
                     actions[CHOOSE i \in shortcut : \A j \in shortcut : i <= j].label,
                     m.file_id, env)
            ELSE a
       ELSE IF key.code = "Esc"
       THEN [a EXCEPT !.modal = ModalNone]
       ELSE a

\* handle_key, the SearchInput arm.
KeySearchInput(a, key) ==
    LET query == a.modal.query
    IN IF key.code = "Esc"
       THEN [a EXCEPT !.modal = ModalNone]
       ELSE IF key.code = "Enter"
       THEN IF query # <<>>
            THEN [a EXCEPT !.pending_action = PendingSearch(query), !.modal = ModalLoading]
            ELSE [a EXCEPT !.modal = ModalNone]
       ELSE IF key.code = "Backspace"
       THEN [a EXCEPT !.modal = ModalSearchInput(pop(query))]
       ELSE IF key.code = "Char" /\ ~key.ctrl
       THEN [a EXCEPT !.modal = ModalSearchInput(Append(query, key.ch))]
       ELSE a

\* The Find arm with Esc submitting the typed query as Enter does.
KeyFind_esc_submits(a, key) ==
    LET query == a.modal.query
    IN IF key.code = "Esc" \/ key.code = "Enter"
       THEN IF query # <<>>
            THEN find_next_with([a EXCEPT !.modal = ModalNone, !.last_search = Some(query)],
                                query)
            ELSE [a EXCEPT !.modal = ModalNone]
       ELSE IF key.code = "Backspace"
       THEN [a EXCEPT !.modal = ModalFind(pop(query))]
       ELSE IF key.code = "Char" /\ ~key.ctrl
       THEN [a EXCEPT !.modal = ModalFind(Append(query, key.ch))]
       ELSE a

\* handle_key, the Find arm.
KeyFind(a, key) ==
    LET query == a.modal.query
    IN IF key.code = "Esc"
       THEN [a EXCEPT !.modal = ModalNone]
       ELSE IF key.code = "Enter"
       THEN IF query # <<>>
            THEN find_next_with([a EXCEPT !.modal = ModalNone, !.last_search = Some(query)],
                                query)
            ELSE [a EXCEPT !.modal = ModalNone]
       ELSE IF key.code = "Backspace"
       THEN [a EXCEPT !.modal = ModalFind(pop(query))]
       ELSE IF key.code = "Char" /\ ~key.ctrl
       THEN [a EXCEPT !.modal = ModalFind(Append(query, key.ch))]
       ELSE a

\* handle_key, the arm of ModalState::None (browsing).
KeyBrowsing(a, key) ==
    LET file == selected_file(a)
    IN IF IsChar(key, "q")
       THEN [a EXCEPT !.app_state = "Quitting"]
       ELSE IF key.code = "Esc"
       THEN IF Len(a.breadcrumbs) > 1
            THEN [go_back(a) EXCEPT !.needs_reload = TRUE]
            ELSE [a EXCEPT !.app_state = "Quitting"]
       ELSE IF key.code = "Up" \/ IsChar(key, "k") THEN move_up(a)
       ELSE IF key.code = "Down" \/ IsChar(key, "j") THEN move_down(a)
       ELSE IF IsChar(key, "u") /\ key.ctrl THEN move_page_up(a)
       ELSE IF IsChar(key, "d") /\ key.ctrl THEN move_page_down(a)
       ELSE IF IsChar(key, "o") /\ key.ctrl
       THEN IF file # None
            THEN [a EXCEPT !.modal =
                     ModalFileActions(file[1].id, file[1].name, file[1].file_type, 0)]
            ELSE a
       ELSE IF key.code = "Enter"
       THEN IF file # None
            THEN IF file[1].file_type = "FOLDER"
                 THEN [enter_folder(a, file[1].id, file[1].name) EXCEPT !.needs_reload = TRUE]
                 ELSE [a EXCEPT !.modal =
                          ModalFileActions(file[1].id, file[1].name, file[1].file_type, 0)]
            ELSE a
       ELSE IF key.code = "Left" \/ key.code = "Backspace"
       THEN [go_back(a) EXCEPT !.needs_reload = TRUE]
       ELSE IF IsChar(key, "/") THEN [a EXCEPT !.modal = ModalFind(<<>>)]
       ELSE IF IsChar(key, "f") /\ key.ctrl THEN [a EXCEPT !.modal = ModalSearchInput(<<>>)]
       ELSE IF IsChar(key, "n") THEN find_next(a)
       ELSE IF IsChar(key, "s") THEN cycle_sort_field(a)
       ELSE IF IsChar(key, "r") THEN toggle_sort_direction(a)
       ELSE IF IsChar(key, "x")
       THEN IF file # None
            THEN [a EXCEPT !.modal = ModalConfirmDelete(file[1].id, file[1].name)]
            ELSE a
       ELSE a

\* handle_key dispatching on the modal before the Ctrl-C check, so that the
\* Loading arm swallows Ctrl-C.
handle_key_loading_first(a, key, env) ==
    IF a.modal.kind = "Loading" THEN a
    ELSE IF key.ctrl /\ IsChar(key, "c")
    THEN [a EXCEPT !.app_state = "Quitting"]
    ELSE CASE a.modal.kind \in {"Error", "Success"}  -> [a EXCEPT !.modal = ModalNone]
           [] a.modal.kind = "ConfirmDelete"         -> KeyConfirmDelete(a, key)
           [] a.modal.kind = "FileActions"           -> KeyFileActions(a, key, env)
           [] a.modal.kind = "SearchInput"           -> KeySearchInput(a, key)
           [] a.modal.kind = "Find"                  -> KeyFind(a, key)
           [] OTHER                                  -> KeyBrowsing(a, key)

\* handle_key with a Loading arm that lets Esc dismiss the modal.
handle_key_loading_esc(a, key, env) ==
    IF key.ctrl /\ IsChar(key, "c")
    THEN [a EXCEPT !.app_state = "Quitting"]
    ELSE CASE a.modal.kind = "Loading"               ->
                IF key.code = "Esc" THEN [a EXCEPT !.modal = ModalNone] ELSE a
           [] a.modal.kind \in {"Error", "Success"}  -> [a EXCEPT !.modal = ModalNone]
           [] a.modal.kind = "ConfirmDelete"         -> KeyConfirmDelete(a, key)
           [] a.modal.kind = "FileActions"           -> KeyFileActions(a, key, env)
           [] a.modal.kind = "SearchInput"           -> KeySearchInput(a, key)
           [] a.modal.kind = "Find"                  -> KeyFind(a, key)
           [] OTHER                                  -> KeyBrowsing(a, key)

\* handle_key
handle_key(a, key, env) ==
    IF key.ctrl /\ IsChar(key, "c")
    THEN [a EXCEPT !.app_state = "Quitting"]
    ELSE CASE a.modal.kind = "Loading"               -> a
           [] a.modal.kind \in {"Error", "Success"}  -> [a EXCEPT !.modal = ModalNone]
           [] a.modal.kind = "ConfirmDelete"         -> KeyConfirmDelete(a, key)
           [] a.modal.kind = "FileActions"           -> KeyFileActions(a, key, env)
           [] a.modal.kind = "SearchInput"           -> KeySearchInput(a, key)
           [] a.modal.kind = "Find"                  -> KeyFind(a, key)
           [] OTHER                                  -> KeyBrowsing(a, key)

\* handle_key, the FileActions arm: the label of the action that `key` runs
\* through execute_file_action, "" when it runs none.
FileActionOfKey(a, key) ==
    IF (key.ctrl /\ IsChar(key, "c")) \/ a.modal.kind # "FileActions"
    THEN ""
    ELSE LET actions  == file_actions_for(a.modal.file_type, a.is_search_results)
             shortcut == { i \in 1..Len(actions) :
                              key.code = "Char" /\ actions[i].key = key.ch }
         IN IF key.code = "Up" \/ IsChar(key, "k") \/ key.code = "Down" \/ IsChar(key, "j")
            THEN ""
            ELSE IF key.code = "Enter" THEN actions[a.modal.selected + 1].label
            ELSE IF shortcut # {}
            THEN actions[CHOOSE i \in shortcut : \A k \in shortcut : i <= k].label
            ELSE ""

\* The blocking remote-store calls handle_key makes on the thread that calls
\* it: execute_file_action calls put::files::url for "Copy URL".
RemoteCallsInKey(a, key) ==
    IF FileActionOfKey(a, key) = "Copy URL" THEN {"url"} ELSE {}

(* ------------------------------ rendering ----------------------------- *)

\* The scroll offset the stateful list widget leaves after drawing `len` rows
\* with the row `selected` highlighted: the window moves just enough to show it.
ScrollOffset(offset, selected, len) ==
    IF len = 0 THEN offset
    ELSE LET o == Min(offset, len - 1)
         IN IF selected < o THEN selected
            ELSE IF selected >= o + VisibleRows THEN selected - VisibleRows + 1
            ELSE o

\* ui::draw, as far as it changes the session: the list widget's scroll offset.
draw(a) ==
    IF a.app_state = "Quitting" THEN a
    ELSE [a EXCEPT !.list_offset = ScrollOffset(@, a.selected_index, Len(a.files))]

(* ---------------------------- remote answers -------------------------- *)

\* put::files::list(folder_id): Err, or the folder's metadata and entries.
ListAnswers ==
    { [ok |-> FALSE, files |-> <<>>, parent_name |-> <<>>] }
    \cup { [ok |-> TRUE, files |-> l, parent_name |-> ParentName] : l \in Listings }

\* put::files::search(query): Err, or the matching entries.
SearchAnswers ==
    { [ok |-> FALSE, files |-> <<>>] } \cup { [ok |-> TRUE, files |-> l] : l \in Listings }

\* put::files::delete(file_id): Err or Ok.
DeleteAnswers == { [ok |-> FALSE], [ok |-> TRUE] }

\* The folder ids the copy-path walk may visit in this model.
FolderIds == {-1, 1, 2}

\* What list(id) reports about folder `id` itself: its name and parent id.
Meta(name, parent_id) == [ok |-> TRUE, name |-> name, parent_id |-> parent_id]

MetaErr == [ok |-> FALSE, name |-> <<>>, parent_id |-> 0]

\* The remote parent structures the copy-path walk is run against.
RemoteTrees ==
    { [i \in FolderIds |-> Meta(<<"b">>, 0)],
      [i \in FolderIds |-> MetaErr],
      [i \in FolderIds |-> Meta(<<"b">>, i)],
      [i \in FolderIds |-> Meta(<<>>, 0)],
      [i \in FolderIds |-> IF i = 1 THEN Meta(<<"b">>, 2) ELSE Meta(<<"A", "b">>, 0)],
      [i \in FolderIds |-> IF i = 1 THEN Meta(<<"b">>, -1) ELSE Meta(<<"A", "b">>, 0)] }

\* Vec::reverse
RECURSIVE reverse(_)
reverse(s) == IF s = <<>> THEN <<>> ELSE Append(reverse(Tail(s)), Head(s))

\* The while loop of build_path_parts, entered with `depth` hops done.
RECURSIVE PathWalk(_, _, _, _)
PathWalk(remote, parent_id, depth, parts) ==
    IF parent_id = 0
    THEN [ok |-> TRUE, parts |-> reverse(parts), msg |-> "", calls |-> depth]
    ELSE IF depth + 1 > MaxPathDepth
    THEN [ok |-> FALSE, parts |-> <<>>, msg |-> "Path lookup failed: path too deep.",
          calls |-> depth]
    ELSE LET folder == remote[parent_id]
         IN IF ~folder.ok
            THEN [ok |-> FALSE, parts |-> <<>>, msg |-> "Path lookup failed: ",
                  calls |-> depth + 1]
            ELSE IF folder.name = <<>>
            THEN [ok |-> FALSE, parts |-> <<>>,
                  msg |-> "Path lookup failed: missing folder name.", calls |-> depth + 1]
            ELSE IF folder.parent_id = parent_id
            THEN [ok |-> FALSE, parts |-> <<>>,
                  msg |-> "Path lookup failed: parent loop detected.", calls |-> depth + 1]
            ELSE PathWalk(remote, folder.parent_id, depth + 1, Append(parts, folder.name))

\* build_path_parts: Ok(parts) or Err(msg), and the number of list calls made.
build_path_parts(remote, parent_id) ==
    IF parent_id < 0
    THEN [ok |-> FALSE, parts |-> <<>>, msg |-> "Path lookup failed: invalid parent id.",
          calls |-> 0]
    ELSE PathWalk(remote, parent_id, 0, <<>>)

\* What the worker of a bridged call may hand back.
Answers(call) ==
    CASE call.kind = "Reload"   -> ListAnswers
      [] call.kind = "Search"   -> SearchAnswers
      [] call.kind = "Delete"   -> DeleteAnswers
      [] call.kind = "CopyPath" ->
            { build_path_parts(t, call.parent_id) : t \in RemoteTrees }
      [] OTHER                  -> {}

(* ----------------------- applying a call's result --------------------- *)

\* The reload path asking for another reload when the listing fails.
reload_result_retries(a, r) ==
    IF r.ok
    THEN LET renamed ==
                 IF a.current_folder_id # 0 /\ Top(a).id = a.current_folder_id
                 THEN [a EXCEPT !.breadcrumbs[Len(a.breadcrumbs)].name = r.parent_name]
                 ELSE a
         IN set_files(renamed, r.files)
    ELSE [a EXCEPT !.modal = ModalError("list failed"), !.needs_reload = TRUE]

\* run, the reload path after spin_while returned `r`.
reload_result(a, r) ==
    IF r.ok
    THEN LET renamed ==
                 IF a.current_folder_id # 0 /\ Top(a).id = a.current_folder_id
                 THEN [a EXCEPT !.breadcrumbs[Len(a.breadcrumbs)].name = r.parent_name]
                 ELSE a
         IN set_files(renamed, r.files)
    ELSE [a EXCEPT !.modal = ModalError("list failed")]

\* run, PendingAction::Search after spin_while returned `r`.
search_result(a, query, r) ==
    IF r.ok
    THEN enter_search_results(a, query, r.files)
    ELSE [a EXCEPT !.modal = ModalError("Search failed: ")]

\* run, PendingAction::CopyPath after spin_while returned `r`.
copy_path_result(a, r, env) ==
    IF r.ok
    THEN copy_to_clipboard(a, "Path copied!", env)
    ELSE [a EXCEPT !.modal = ModalError(r.msg)]

\* The delete path asking for no reload after a successful delete.
delete_result_no_reload(a, r) ==
    IF r.ok
    THEN a
    ELSE [a EXCEPT !.modal = ModalError("Delete failed: ")]

\* run, PendingAction::Delete after spin_while returned `r`.
delete_result(a, r) ==
    IF r.ok
    THEN [a EXCEPT !.needs_reload = TRUE]
    ELSE [a EXCEPT !.modal = ModalError("Delete failed: ")]

\* The session after the bridged call `call` returned `r`.
apply_result(a, call, r, env) ==
    CASE call.kind = "Reload"   -> reload_result(a, r)
      [] call.kind = "Search"   -> search_result(a, call.query, r)
      [] call.kind = "CopyPath" -> copy_path_result(a, r, env)
      [] OTHER                  -> delete_result(a, r)

(* ------------------------------- state -------------------------------- *)

VARIABLES
    app,      \* the BrowserApp session owned by run
    pc,       \* where run is: "loop", "spin", "download", "download_ok",
              \* "download_failed", "poll", or returned: "exit_ok" (Ok),
              \* "exit_err" (a terminal or event error), "exit_worker"
              \* (the error "worker thread panicked")
    bridge,   \* the spin_while call in progress: the call, its worker, the channel
    term,     \* the terminal: "tui" (raw mode, alternate screen) or "normal"
    hist      \* history of the navigation, kept for stating the properties

vars == <<app, pc, bridge, term, hist>>

\* No spin_while call in progress.
BridgeIdle == [call |-> [kind |-> "None"], worker |-> "none", result |-> None]

\* spin_while just spawned the worker of `call`.
BridgeSpawn(call) == [call |-> call, worker |-> "running", result |-> None]

\* The listing fetch of the reload path.
ReloadCall(folder_id) == [kind |-> "Reload", folder_id |-> folder_id]

\* History: for every breadcrumb above the root, the cursor and scroll offset
\* at the enter_folder that pushed it (None for a crumb pushed otherwise);
\* `expect` is that pair from go_back until the parent's listing is loaded.
HistInit == [stack |-> <<>>, expect |-> None]

\* History after a key event took the session from a to b.
HistKey(h, a, b) ==
    IF Len(b.breadcrumbs) = Len(a.breadcrumbs) + 1
    THEN [stack  |-> Append(h.stack, Some(<<a.selected_index, a.list_offset>>)),
          expect |-> None]
    ELSE IF Len(b.breadcrumbs) = Len(a.breadcrumbs) - 1 /\ h.stack # <<>>
    THEN [stack  |-> SubSeq(h.stack, 1, Len(h.stack) - 1),
          expect |-> h.stack[Len(h.stack)]]
    ELSE h

\* History after the bridged call `call` returned r, taking the session from a to b.
HistResult(h, call, r, a, b) ==
    IF call.kind = "Reload" /\ r.ok
    THEN [h EXCEPT !.expect = None]
    ELSE IF call.kind = "Search" /\ r.ok
    THEN [stack  |-> IF Len(b.breadcrumbs) > Len(a.breadcrumbs)
                     THEN Append(h.stack, None) ELSE h.stack,
          expect |-> None]
    ELSE h

Init ==
    /\ app = new
    /\ pc = "loop"
    /\ bridge = BridgeIdle
    /\ term = "tui"
    /\ hist = HistInit

(* ------------------------------ drive loop ---------------------------- *)

\* run: a frame is drawn, the session is Quitting: the terminal is restored
\* and run returns Ok.
LoopQuit ==
    /\ pc = "loop"
    /\ app.app_state = "Quitting"
    /\ app' = new
    /\ hist' = HistInit
    /\ pc' = "exit_ok"
    /\ term' = "normal"
    /\ UNCHANGED bridge

\* run, the reload path up to the spawn of the list worker in spin_while.
LoopReload ==
    /\ pc = "loop"
    /\ app.app_state # "Quitting"
    /\ app.needs_reload
    /\ app' = [draw(app) EXCEPT !.needs_reload = FALSE, !.modal = ModalLoading]
    /\ bridge' = BridgeSpawn(ReloadCall(app.current_folder_id))
    /\ pc' = "spin"
    /\ UNCHANGED <<term, hist>>

\* The pending action read without mem::replace: the slot keeps its value.
Taken_not_reset == draw(app)

\* run: the guard of the pending-action path.
TakesPending(kind) ==
    /\ pc = "loop"
    /\ app.app_state # "Quitting"
    /\ ~app.needs_reload
    /\ app.pending_action.kind = kind

\* run: the frame was drawn and mem::replace took the pending action.
Taken == [draw(app) EXCEPT !.pending_action = PendingNone]

\* run, PendingAction::None: straight to the event poll.
LoopIdle ==
    /\ TakesPending("None")
    /\ app' = Taken
    /\ pc' = "poll"
    /\ UNCHANGED <<bridge, term, hist>>

\* run, PendingAction::Search / CopyPath / Delete up to the spawn of the worker.
LoopBridged ==
    /\ \/ TakesPending("Search")
       \/ TakesPending("CopyPath")
       \/ TakesPending("Delete")
    /\ app' = Taken
    /\ bridge' = BridgeSpawn(app.pending_action)
    /\ pc' = "spin"
    /\ UNCHANGED <<term, hist>>

\* run, PendingAction::GoToFolder.
LoopGoToFolder ==
    /\ TakesPending("GoToFolder")
    /\ app' = [navigate_to_folder(Taken, app.pending_action.parent_id,
                                  app.pending_action.file_id)
                  EXCEPT !.needs_reload = TRUE]
    /\ hist' = [stack  |-> IF app.pending_action.parent_id # RootId THEN <<None>> ELSE <<>>,
                expect |-> None]
    /\ pc' = "poll"
    /\ UNCHANGED <<bridge, term>>

\* run, PendingAction::Download: the TUI is suspended and the download runs
\* on the loop's own thread.
LoopDownload ==
    /\ TakesPending("Download")
    /\ app' = Taken
    /\ term' = "normal"
    /\ pc' = "download"
    /\ UNCHANGED <<bridge, hist>>

\* run, PendingAction::Download: put::files::download returns Ok or Err; an
\* Err is printed to stderr.  run then waits for Enter on stdin.
DownloadEnds ==
    /\ pc = "download"
    /\ pc' \in {"download_ok", "download_failed"}
    /\ UNCHANGED <<app, bridge, term, hist>>

\* run, PendingAction::Download: Enter was read, the TUI is resumed.
DownloadReturn ==
    /\ pc \in {"download_ok", "download_failed"}
    /\ term' = "tui"
    /\ pc' = "poll"
    /\ UNCHANGED <<app, bridge, hist>>

(* ------------------------------- bridge ------------------------------- *)

\* The worker thread of spin_while: work() returns and the value is sent.
WorkerSend ==
    /\ pc = "spin"
    /\ bridge.worker = "running"
    /\ \E r \in Answers(bridge.call) :
           bridge' = [bridge EXCEPT !.worker = "sent", !.result = Some(r)]
    /\ UNCHANGED <<app, pc, term, hist>>

\* The worker thread ends after sending: the sender is dropped.
WorkerExit ==
    /\ pc = "spin"
    /\ bridge.worker = "sent"
    /\ bridge' = [bridge EXCEPT !.worker = "exited"]
    /\ UNCHANGED <<app, pc, term, hist>>

\* The worker thread panics inside work(): the panic hook restores the
\* terminal, nothing is sent and the sender is dropped.
WorkerPanic ==
    /\ pc = "spin"
    /\ bridge.worker = "running"
    /\ bridge' = [bridge EXCEPT !.worker = "panicked"]
    /\ term' = "normal"
    /\ UNCHANGED <<app, pc, hist>>

\* spin_while returning to its caller on TryRecvError::Empty as well: the
\* worker is left running.
SpinRecv_on_empty ==
    /\ pc = "spin"
    /\ IF bridge.result # None
       THEN /\ \E env \in (IF bridge.call.kind = "CopyPath" THEN Env ELSE {DefaultEnv}) :
                  /\ app' = apply_result(draw(app), bridge.call, bridge.result[1], env)
                  /\ hist' = HistResult(hist, bridge.call, bridge.result[1], app, app')
            /\ bridge' = BridgeIdle
       ELSE /\ bridge.worker = "running"
            /\ app' = draw(app)
            /\ UNCHANGED <<bridge, hist>>
    /\ pc' = IF bridge.call.kind = "Reload" THEN "loop" ELSE "poll"
    /\ UNCHANGED term

\* spin_while treating TryRecvError::Disconnected like Empty: it sleeps and
\* polls again.
SpinDisconnected_sleeps ==
    /\ pc = "spin"
    /\ bridge.worker = "panicked"
    /\ UNCHANGED vars

\* spin_while: a frame is drawn and try_recv returns the value; run applies
\* it.  The reload path continues the loop, an action goes on to the poll.
\* (An iteration whose try_recv is Empty changes only the tick.)
SpinRecv ==
    /\ pc = "spin"
    /\ bridge.result # None
    /\ \E env \in (IF bridge.call.kind = "CopyPath" THEN Env ELSE {DefaultEnv}) :
           /\ app' = apply_result(draw(app), bridge.call, bridge.result[1], env)
           /\ hist' = HistResult(hist, bridge.call, bridge.result[1], app, app')
    /\ bridge' = BridgeIdle
    /\ pc' = IF bridge.call.kind = "Reload" THEN "loop" ELSE "poll"
    /\ UNCHANGED term

\* spin_while reporting the worker unreachable whenever the sender is gone,
\* whether or not a value is waiting in the channel.
SpinDisconnected_on_drop ==
    /\ pc = "spin"
    /\ bridge.worker \in {"exited", "panicked"}
    /\ bridge' = BridgeIdle
    /\ app' = new
    /\ hist' = HistInit
    /\ pc' = "exit_worker"
    /\ UNCHANGED term

\* spin_while: try_recv reports Disconnected; the error leaves run through `?`.
SpinDisconnected ==
    /\ pc = "spin"
    /\ bridge.worker = "panicked"
    /\ bridge' = BridgeIdle
    /\ app' = new
    /\ hist' = HistInit
    /\ pc' = "exit_worker"
    /\ UNCHANGED term

(* -------------------------------- input ------------------------------- *)

\* The key events the model delivers in the session's current modal: in the
\* text modals only TypedChars are typed, up to MaxQuery characters.
Typable(a, key) ==
    (a.modal.kind \in {"Find", "SearchInput"} /\ key.code = "Char" /\ ~key.ctrl)
        => (key.ch \in TypedChars /\ Len(a.modal.query) < MaxQuery)

\* The keys 's' and 'r' pressed while browsing: the two sort commands.
SortKey(a, key) == a.modal.kind = "None" /\ (IsChar(key, "s") \/ IsChar(key, "r"))

\* The breadcrumb stack stays within `depth`, counting the crumb a pending
\* search is going to push.
WithinDepth(b, depth) ==
    Len(b.breadcrumbs)
        + (IF b.pending_action.kind = "Search" /\ ~b.is_search_results THEN 1 ELSE 0)
    <= depth

\* run: event::poll reports the key event `key` and handle_key handles it.
KeyEvent(key, depth) ==
    /\ pc = "poll"
    /\ Typable(app, key)
    /\ \E env \in (IF app.modal.kind = "FileActions" THEN Env ELSE {DefaultEnv}) :
           /\ WithinDepth(handle_key(app, key, env), depth)
           /\ app' = handle_key(app, key, env)
           /\ hist' = HistKey(hist, app, app')
    /\ pc' = "loop"
    /\ UNCHANGED <<bridge, term>>

\* Any key of Keys, the breadcrumbs within MaxDepth.
PollKey == \E key \in Keys : KeyEvent(key, MaxDepth)

\* Any key of Keys but a sort command, the breadcrumbs within DeepDepth.
PollKeyDeep == \E key \in Keys : ~SortKey(app, key) /\ KeyEvent(key, DeepDepth)

\* run: event::poll times out, or the event is not a key event.
PollNone ==
    /\ pc = "poll"
    /\ pc' = "loop"
    /\ UNCHANGED <<app, bridge, term, hist>>

\* run: terminal.draw, event::poll, event::read or a terminal mode switch
\* fails and the error leaves run through `?`.
IoError ==
    /\ pc \in {"loop", "spin", "poll", "download", "download_ok", "download_failed"}
    /\ bridge' = BridgeIdle
    /\ app' = new
    /\ hist' = HistInit
    /\ pc' = "exit_err"
    /\ UNCHANGED term

\* Every step of run and of the worker but the key event.
Step ==
    \/ LoopQuit
    \/ LoopReload
    \/ LoopIdle
    \/ LoopBridged
    \/ LoopGoToFolder
    \/ LoopDownload
    \/ DownloadEnds
    \/ DownloadReturn
    \/ WorkerSend
    \/ WorkerExit
    \/ WorkerPanic
    \/ SpinRecv
    \/ SpinDisconnected
    \/ PollNone
    \/ IoError

Next == Step \/ PollKey

Spec == Init /\ [][Next]_vars

NextDeep == Step \/ PollKeyDeep

SpecDeep == Init /\ [][NextDeep]_vars

(* ------------------------------ properties ---------------------------- *)

\* C1: in every reachable state the breadcrumb stack has at least one entry
\* and its first entry is the root (folder id 0).
C1_RootAtBottom ==
    /\ Len(app.breadcrumbs) >= 1
    /\ app.breadcrumbs[1].id = RootId

\* C1 witness: a go_back from an entered folder has popped the stack to the root.
C1_Witness ==
    /\ hist.expect # None
    /\ Len(app.breadcrumbs) = 1
    /\ app.modal.kind = "Loading"

\* C2: in every reachable state the cursor is below the number of entries of
\* a non-empty snapshot, and 0 for an empty snapshot.
C2_CursorInRange ==
    IF app.files # <<>>
    THEN app.selected_index < Len(app.files)
    ELSE app.selected_index = 0

\* C2 witness: the cursor sits on the last entry of a two-entry snapshot that
\* was re-sorted in descending order.
C2_Witness ==
    /\ app.modal.kind = "None"
    /\ Len(app.files) = 2
    /\ app.selected_index = 1
    /\ app.sort_direction = "Desc"

Max(x, y) == IF x >= y THEN x ELSE y

\* The step of run that applies a successful listing to the session.
ReloadApplied ==
    /\ pc = "spin"
    /\ pc' = "loop"
    /\ bridge.call.kind = "Reload"
    /\ bridge.result # None
    /\ bridge.result[1].ok

\* C3: when the listing of the parent is loaded after a go_back that undid an
\* enter_folder made at cursor c and offset o, and the listing has more than
\* max(c, o) entries, the cursor is c and the offset is o again.
C3_RoundTrip ==
    [][ ( /\ ReloadApplied
          /\ hist.expect # None
          /\ Len(app'.files) > Max(hist.expect[1][1], hist.expect[1][2]) )
        => ( /\ app'.selected_index = hist.expect[1][1]
             /\ app'.list_offset = hist.expect[1][2] ) ]_vars

\* The step of run that enters the results of a successful search.
SearchApplied ==
    /\ pc = "spin"
    /\ pc' = "poll"
    /\ bridge.call.kind = "Search"
    /\ bridge.result # None
    /\ bridge.result[1].ok

\* C4: entering search results while already showing search results keeps
\* the breadcrumb count and only renames the top entry to "Search: {query}";
\* otherwise exactly one virtual entry with id -1 is pushed.  Either way the
\* snapshot is replaced by the results, the cursor is 0 and the modal is None.
C4_SearchCrumbs ==
    [][ SearchApplied =>
          LET n == Len(app.breadcrumbs)
              name == SearchName(bridge.call.query)
          IN /\ IF app.is_search_results
                THEN /\ Len(app'.breadcrumbs) = n
                     /\ app'.breadcrumbs = [app.breadcrumbs EXCEPT ![n].name = name]
                ELSE /\ Len(app'.breadcrumbs) = n + 1
                     /\ app'.breadcrumbs[n + 1].id = SearchId
                     /\ app'.breadcrumbs[n + 1].name = name
             /\ app'.files = bridge.result[1].files
             /\ app'.selected_index = 0
             /\ app'.modal = ModalNone ]_vars

\* C4 witness: results were entered in place: the top entry carries the name
\* of the search and still the id of the folder it was pushed for, which only
\* the renaming branch produces.
C4_Witness ==
    /\ pc = "poll"
    /\ app.is_search_results
    /\ app.modal.kind = "None"
    /\ Top(app).id # SearchId
    /\ Top(app).name = SearchName(<<"B">>)
    /\ app.files # <<>>
    /\ app.selected_index = 0

(* --------------------------- the finder alone -------------------------- *)

\* Bounds of the finder's inputs.
FindLen == 3
FindQueryLen == 2

\* The characters of the queries.
FindChars == {"a", "B"}

RECURSIVE SeqsUpTo(_, _)
SeqsUpTo(S, n) ==
    IF n = 0 THEN {<<>>}
    ELSE LET shorter == SeqsUpTo(S, n - 1)
         IN shorter \cup {Append(t, x) : t \in {u \in shorter : Len(u) = n - 1}, x \in S}

Injective(t) == \A i, j \in 1..Len(t) : t[i] = t[j] => i = j

\* Snapshots in any order (search results are shown as they arrive).
FindSnapshots == {t \in SeqsUpTo({F1, F2, F3}, FindLen) : Injective(t)}

FindQueries == SeqsUpTo(FindChars, FindQueryLen)

\* The record of the last call of find_next_with.
NoCall == [called |-> FALSE, query |-> <<>>, before |-> new, found |-> FALSE, probes |-> 0]

\* A browsing session showing some snapshot with the cursor on any entry.
InitFind ==
    /\ \E files \in FindSnapshots :
         \E cursor \in 0..saturating_sub(Len(files), 1) :
           app = [new EXCEPT !.files = files,
                             !.selected_index = cursor,
                             !.list_offset = cursor,
                             !.modal = ModalNone,
                             !.needs_reload = FALSE]
    /\ pc = "poll"
    /\ bridge = BridgeIdle
    /\ term = "tui"
    /\ hist = NoCall

\* find_next_with is called with some query.
FindNextWith ==
    /\ \E query \in FindQueries :
         /\ app' = find_next_with(app, query)
         /\ hist' = [called |-> TRUE,
                     query  |-> query,
                     before |-> app,
                     found  |-> find_next_with_ret(app, query),
                     probes |-> FindOutcome(app, query).probes]
    /\ UNCHANGED <<pc, bridge, term>>

NextFind == FindNextWith

SpecFind == InitFind /\ [][NextFind]_vars

\* The entry at 0-based position i has a name containing the query,
\* whatever the case of the letters.
Matches(files, query, i) == contains(to_lowercase(files[i + 1].name), to_lowercase(query))

HasMatch(files, query) == \E i \in 0..(Len(files) - 1) : Matches(files, query, i)

\* C5: find_next_with probes at most n = len(entries) positions; for a
\* non-empty query and snapshot it returns false exactly when no entry's name
\* contains the query case-insensitively; for an empty query or an empty
\* snapshot it returns false.
C5_FalseIffNoMatch ==
    hist.called =>
        LET files == hist.before.files
        IN /\ hist.probes <= Len(files)
           /\ IF hist.query = <<>> \/ files = <<>>
              THEN ~hist.found
              ELSE hist.found <=> HasMatch(files, hist.query)

\* C5 witness: a call with an upper-case query that only a lower-case name
\* contains returned true on the n-th probe, the cursor's own position.
C5_Witness ==
    /\ hist.called
    /\ hist.query = <<"B">>
    /\ hist.found
    /\ Len(hist.before.files) = 2
    /\ hist.probes = 2

\* The only entry containing the query is the one under the cursor.
OnlyMatchUnderCursor ==
    /\ hist.called
    /\ hist.query # <<>>
    /\ hist.before.files # <<>>
    /\ \A i \in 0..(Len(hist.before.files) - 1) :
           Matches(hist.before.files, hist.query, i) <=> i = hist.before.selected_index

\* C6 (as stated): when the only entry containing the query is the one under
\* the cursor, find_next_with returns false and the cursor stays.
C6_ReturnsFalse ==
    OnlyMatchUnderCursor =>
        /\ ~hist.found
        /\ app.selected_index = hist.before.selected_index

\* C6 (amended): when the only entry containing the query is the one under
\* the cursor, find_next_with returns true (the n-th probe is the cursor's own
\* position) and the cursor stays.
C6_ReturnsTrue ==
    OnlyMatchUnderCursor =>
        /\ hist.found
        /\ app.selected_index = hist.before.selected_index

\* C6 witness: the second of three entries is the only match and lies under
\* the cursor.
C6_Witness ==
    /\ OnlyMatchUnderCursor
    /\ Len(hist.before.files) = 3
    /\ hist.before.selected_index = 1
    /\ hist.probes = 3

\* Distance of position i from the first probe, (cursor + 1) mod n.
CyclicRank(i, cursor, n) == (i + n - ((cursor + 1) % n)) % n

\* C7: on success the cursor is on the first matching entry in cyclic order
\* from (cursor + 1) mod n; on failure no field of the session changes.
C7_FirstInCyclicOrder ==
    hist.called =>
        LET b == hist.before
            n == Len(b.files)
        IN IF hist.found
           THEN /\ Matches(b.files, hist.query, app.selected_index)
                /\ \A j \in 0..(n - 1) :
                       Matches(b.files, hist.query, j) =>
                           CyclicRank(app.selected_index, b.selected_index, n)
                               <= CyclicRank(j, b.selected_index, n)
           ELSE app = b

\* C7 witness: the scan wrapped around: with two matches, one of them under
\* the cursor, the cursor moved back to the match before it.
C7_Witness ==
    /\ hist.called
    /\ hist.found
    /\ Matches(hist.before.files, hist.query, hist.before.selected_index)
    /\ app.selected_index < hist.before.selected_index

(* ------------------------------- sorting ------------------------------ *)

\* C8: in any state showing a snapshot, toggle_sort_direction applied twice
\* gives back the entries in exactly the order they are in.
C8_ToggleTwice ==
    app.modal.kind = "None" =>
        toggle_sort_direction(toggle_sort_direction(app)).files = app.files

\* The entries are in the order of the sort field and direction.
Sorted(a) ==
    \A i, j \in 1..Len(a.files) :
        i < j => SortCmp(a.sort_field, a.sort_direction, a.files[i], a.files[j]) <= 0

\* C9: whenever a snapshot is visible (the modal is not Loading) the entries
\* are ordered by the current sort field and direction.
C9_SnapshotSorted == app.modal.kind # "Loading" => Sorted(app)

(* ---------------------------- pending action -------------------------- *)

\* A pending action is set only at the top of a loop iteration that is going
\* to take it: not at the poll, not while a worker or a download runs, not
\* with a reload due, not when quitting.
SlotSetOnlyAtLoopTop ==
    app.pending_action.kind # "None" =>
        /\ pc = "loop"
        /\ ~app.needs_reload
        /\ app.app_state = "Browsing"
        /\ bridge = BridgeIdle

\* A set slot changes only by being reset to None, on the step that starts
\* carrying the action out (or run ends with an I/O error).
SlotTakenOnce ==
    app.pending_action.kind # "None" =>
        \/ pc' = "exit_err"
        \/ /\ app'.pending_action = PendingNone
           /\ CASE app.pending_action.kind \in {"Search", "CopyPath", "Delete"} ->
                       pc' = "spin" /\ bridge'.call = app.pending_action
                [] app.pending_action.kind = "GoToFolder" ->
                       app'.pending_select_id = Some(app.pending_action.file_id)
                [] app.pending_action.kind = "Download" -> pc' = "download"

\* C10: at most one pending action is outstanding and none is lost or
\* overwritten: a pending action set by a key event is taken (the slot reset
\* to None) and carried out by the next loop iteration, before any other key
\* event is handled and never while a reload is due.
C10_OnePending == []SlotSetOnlyAtLoopTop /\ [][SlotTakenOnce]_vars

\* C10 witness: the delete set by the confirmation was taken and is being
\* carried out by the worker, the slot empty again.
C10_Witness ==
    /\ pc = "spin"
    /\ bridge.call.kind = "Delete"
    /\ app.pending_action = PendingNone

(* --------------------------------- bridge ----------------------------- *)

\* A bridge call exists only while run is inside spin_while, and then no
\* other remote work is requested: no reload is due and the slot is empty.
BridgeOnlyInSpin ==
    /\ bridge # BridgeIdle => pc = "spin"
    /\ pc = "spin" =>
          /\ bridge.call.kind \in {"Reload", "Search", "CopyPath", "Delete"}
          /\ ~app.needs_reload
          /\ app.pending_action = PendingNone

\* A worker is spawned only by the loop, with no bridge call in progress.
SpawnFromIdle ==
    (bridge' # bridge /\ bridge'.worker = "running") =>
        /\ bridge = BridgeIdle
        /\ pc = "loop"
        /\ pc' = "spin"

\* C11: at most one bridged worker operation is in flight: a bridge call is
\* in progress only inside spin_while, with no reload due and no action
\* pending, and a worker is spawned only when the previous call has returned.
C11_OneWorker == []BridgeOnlyInSpin /\ [][SpawnFromIdle]_vars

\* C11 witness: the worker of a search is running while the session shows the
\* listing an earlier bridge call returned.
C11_Witness ==
    /\ pc = "spin"
    /\ bridge.call.kind = "Search"
    /\ bridge.worker = "running"
    /\ app.files # <<>>
    /\ ~app.is_search_results

\* C12: no key event makes a blocking remote-store call on the drive loop's
\* thread: whatever key is handled next, handle_key calls the store for
\* nothing (every call but Download runs on a bridge worker).
C12_NoRemoteCallInKey ==
    pc = "poll" => \A key \in Keys : RemoteCallsInKey(app, key) = {}

\* The step of run that draws the frame of the session as it is and then
\* enters spin_while, which spawns the worker before it draws.
SpawnStep == pc = "loop" /\ pc' = "spin"

\* C13: the last frame drawn before the worker of a bridged call is spawned
\* shows the Loading modal, and while the call is in progress the session is
\* not changed: the result is applied only when spin_while returns.
C13_LoadingBeforeCall ==
    [][ /\ SpawnStep => app.modal.kind = "Loading"
        /\ (pc = "spin" /\ pc' = "spin") => app' = app ]_vars

\* The worker's value is in the channel.
ValueSent == pc = "spin" /\ bridge.result # None

\* C14: once the worker has sent its value, whatever the worker does next,
\* the value stays in the channel until spin_while returns it: it is then
\* applied to the session and the bridge is left empty, so it is returned
\* once; spin_while never reports the worker unreachable instead.
C14_ValueReturnedOnce ==
    [][ ValueSent =>
          /\ pc' # "exit_worker"
          /\ pc' = "spin" => (bridge'.result = bridge.result /\ bridge'.call = bridge.call)
          /\ pc' \in {"loop", "poll"} =>
                /\ bridge' = BridgeIdle
                /\ \E env \in Env :
                       app' = apply_result(draw(app), bridge.call, bridge.result[1], env) ]_vars

\* C14 witness: the worker sent its value and ended, dropping the sender,
\* before spin_while polled the channel.
C14_Witness ==
    /\ ValueSent
    /\ bridge.worker = "exited"
    /\ bridge.call.kind = "Delete"
    /\ bridge.result[1].ok

(* ------------------------------- liveness ----------------------------- *)

\* The worker thread is scheduled: work() returns a value, which is sent, or
\* panics.  spin_while's loop keeps polling: it sleeps 80 ms between polls.
BridgeFairness ==
    /\ WF_vars(WorkerSend \/ WorkerPanic)
    /\ WF_vars(SpinRecv)
    /\ WF_vars(SpinDisconnected)

\* The keys that start every kind of bridged call, the download and the
\* go-to-folder navigation, and quit.
LiveKeys ==
    { Key("Char", c, FALSE) : c \in {"q", "j", "x", "y", "B", "z", "p", "g"} }
    \cup { Key("Char", "f", TRUE) }
    \cup { Key(code, "", FALSE) : code \in {"Enter", "Esc", "Left"} }

PollKeyLive == \E key \in LiveKeys : KeyEvent(key, MaxDepth)

NextLive == Step \/ PollKeyLive

SpecLive == Init /\ [][NextLive]_vars /\ BridgeFairness

\* spin_while ends a call whose worker is gone without a value only with an
\* error: "worker thread panicked", or the error of a draw that failed.
UnreachableIsFatal ==
    (pc = "spin" /\ bridge.worker = "panicked" /\ pc' # "spin") =>
        pc' \in {"exit_worker", "exit_err"}

Exited == pc \in {"exit_ok", "exit_err", "exit_worker"}

\* C16: whenever run has returned, by whatever path, the terminal is back in
\* its original mode.
C16_TerminalRestored == Exited => term = "normal"

(* ------------------------------- delete ------------------------------- *)

ConfirmKeys == { Key("Char", "y", FALSE), Key("Char", "Y", FALSE) }

CancelKeys == { Key("Char", "n", FALSE), Key("Char", "N", FALSE), Key("Esc", "", FALSE) }

\* The steps that lead to a remote delete, and the keys that cancel one.
DeleteOnlyConfirmed ==
    /\ (app'.modal.kind = "ConfirmDelete" /\ app.modal.kind # "ConfirmDelete") =>
          /\ pc = "poll"
          /\ app.modal.kind = "None"
          /\ selected_file(app) # None
          /\ app'.modal.file_id = selected_file(app)[1].id
    /\ (app'.pending_action.kind = "Delete" /\ app.pending_action.kind # "Delete") =>
          /\ pc = "poll"
          /\ app.modal.kind = "ConfirmDelete"
          /\ app'.pending_action.file_id = app.modal.file_id
    /\ (bridge'.call.kind = "Delete" /\ bridge.call.kind # "Delete") =>
          /\ app.pending_action.kind = "Delete"
          /\ bridge'.call.file_id = app.pending_action.file_id

\* Whatever key is handled next, it sets the Delete action only if it is y or
\* Y and the modal is ConfirmDelete, and then for the modal's file_id.
OnlyConfirmKeysDelete ==
    pc = "poll" =>
        \A key \in Keys :
            LET b == handle_key(app, key, DefaultEnv)
            IN b.pending_action.kind = "Delete" =>
                   /\ key \in ConfirmKeys
                   /\ app.modal.kind = "ConfirmDelete"
                   /\ b.pending_action.file_id = app.modal.file_id

\* In ConfirmDelete the keys n, N and Esc close the modal and change nothing
\* else: the slot stays as it is (empty).
CancelStartsNothing ==
    (pc = "poll" /\ app.modal.kind = "ConfirmDelete") =>
        \A key \in CancelKeys :
            /\ handle_key(app, key, DefaultEnv) = [app EXCEPT !.modal = ModalNone]
            /\ app.pending_action = PendingNone

\* C17: a remote delete(file_id) is started only for the Delete action that y
\* or Y set while the modal was ConfirmDelete for that file_id, the id of the
\* entry selected when the modal was opened; n, N and Esc in ConfirmDelete
\* set the modal to None, leave the pending action unchanged and start no
\* delete.
C17_DeleteConfirmed ==
    /\ []OnlyConfirmKeysDelete
    /\ []CancelStartsNothing
    /\ [][DeleteOnlyConfirmed]_vars

\* C17 witness: the worker is deleting the entry the user confirmed.
C17_Witness ==
    /\ pc = "spin"
    /\ bridge.call.kind = "Delete"
    /\ bridge.call.file_id = 2
    /\ bridge.worker = "running"
    /\ app.restore_index = Some(1)

(* ------------------------------- failures ----------------------------- *)

\* spin_while returns the result of a call that failed.
CallFailed == ValueSent /\ ~bridge.result[1].ok /\ pc' \in {"loop", "poll"}

\* run goes back to the event poll after a download that failed.
DownloadFailed == pc = "download_failed" /\ pc' = "poll"

\* The Error modal with some message is up.
ErrorShown(a) == a.modal.kind = "Error" /\ a.modal.msg # ""

\* The url call made while handling a key fails: the key leaves the Error
\* modal.
UrlFailureShown ==
    pc = "poll" =>
        \A key \in Keys :
            RemoteCallsInKey(app, key) # {} =>
                ErrorShown(handle_key(app, key, [DefaultEnv EXCEPT !.url_ok = FALSE]))

\* C18: every failed remote-store call leaves the Error modal with a message
\* for the next key event: the bridged calls (list, search, delete, the
\* copy-path walk), the url call and the download.
C18_FailureShown ==
    /\ []UrlFailureShown
    /\ [][ /\ CallFailed => ErrorShown(app')
           /\ DownloadFailed => ErrorShown(app')
           /\ (pc = "loop" /\ pc' = "poll" /\ ErrorShown(app)) => ErrorShown(app') ]_vars

\* Remote work is requested: a reload is due or an action is pending.
Requested(a) == a.needs_reload \/ a.pending_action # PendingNone

\* After a failed bridged call nothing is requested; the loop starts a worker
\* or a download only for a request; and a request appears only when a key is
\* handled, when a delete succeeded (the reload of the listing) or when the
\* go-to-folder action is taken (the load of the folder).  The session of a
\* run that has ended is not considered.
NoRetry ==
    /\ CallFailed => ~Requested(app')
    /\ (SpawnStep \/ (pc = "loop" /\ pc' = "download")) => Requested(app)
    /\ (app'.pending_action # PendingNone /\ app.pending_action = PendingNone) =>
          pc = "poll"
    /\ (app'.needs_reload /\ ~app.needs_reload /\ ~Exited') =>
          \/ pc = "poll"
          \/ ValueSent /\ bridge.call.kind = "Delete" /\ bridge.result[1].ok
          \/ app.pending_action.kind = "GoToFolder"

\* C19: a failed remote call is not retried: after a bridged call fails no
\* reload is due and no action is pending, and the loop starts no remote call
\* until a key event has been handled.
C19_NoAutoRetry == [][NoRetry]_vars

\* C19 witness: a search failed; its error is shown, nothing is requested and
\* run waits for a key.
C19_Witness ==
    /\ pc = "poll"
    /\ app.modal = ModalError("Search failed: ")
    /\ ~Requested(app)
    /\ bridge = BridgeIdle

(* ------------------- the copy-path walk, hop by hop -------------------- *)

\* Parent structures whose chain from folder 1 loops: folder 1 and folder 2
\* name each other as parent, and folder 1 leads to folder 2, its own parent.
LoopTrees ==
    { [i \in FolderIds |-> IF i = 1 THEN Meta(<<"b">>, 2) ELSE Meta(<<"A", "b">>, 1)],
      [i \in FolderIds |-> IF i = 1 THEN Meta(<<"b">>, 2) ELSE Meta(<<"A", "b">>, 2)] }

\* The remote parent structures the walk of SpecWalk is run against.
WalkTrees == RemoteTrees \cup LoopTrees

\* The locals of build_path_parts at the head of its while loop.
Walk(remote, parent_id, depth, parts) ==
    [remote |-> remote, parent_id |-> parent_id, depth |-> depth, parts |-> parts]

\* The bridge while the worker is inside build_path_parts.
BridgeWalking(call, w) ==
    [call |-> call, worker |-> "running", result |-> None, walk |-> w]

\* The bridge once build_path_parts returned `r` and the worker sent it.
BridgeWalked(call, r) == [call |-> call, worker |-> "sent", result |-> Some(r)]

WalkErr(msg, calls) == [ok |-> FALSE, parts |-> <<>>, msg |-> msg, calls |-> calls]

\* The walk returning the names in the order they were collected.
WalkReturn_unreversed(w) ==
    IF w.parent_id = 0
    THEN Some([ok |-> TRUE, parts |-> w.parts, msg |-> "", calls |-> w.depth])
    ELSE IF w.depth + 1 > MaxPathDepth
    THEN Some(WalkErr("Path lookup failed: path too deep.", w.depth))
    ELSE LET folder == w.remote[w.parent_id]
         IN IF ~folder.ok
            THEN Some(WalkErr("Path lookup failed: ", w.depth + 1))
            ELSE IF folder.name = <<>>
            THEN Some(WalkErr("Path lookup failed: missing folder name.", w.depth + 1))
            ELSE IF folder.parent_id = w.parent_id
            THEN Some(WalkErr("Path lookup failed: parent loop detected.", w.depth + 1))
            ELSE None

\* One pass through the while loop of build_path_parts from the locals `w`:
\* the value returned, or None when the loop goes round again.
WalkReturn(w) ==
    IF w.parent_id = 0
    THEN Some([ok |-> TRUE, parts |-> reverse(w.parts), msg |-> "", calls |-> w.depth])
    ELSE IF w.depth + 1 > MaxPathDepth
    THEN Some(WalkErr("Path lookup failed: path too deep.", w.depth))
    ELSE LET folder == w.remote[w.parent_id]
         IN IF ~folder.ok
            THEN Some(WalkErr("Path lookup failed: ", w.depth + 1))
            ELSE IF folder.name = <<>>
            THEN Some(WalkErr("Path lookup failed: missing folder name.", w.depth + 1))
            ELSE IF folder.parent_id = w.parent_id
            THEN Some(WalkErr("Path lookup failed: parent loop detected.", w.depth + 1))
            ELSE None

\* The locals after a pass that goes round again.
WalkOn(w) ==
    LET folder == w.remote[w.parent_id]
    IN Walk(w.remote, folder.parent_id, w.depth + 1, Append(w.parts, folder.name))

\* The listing <<F1, F2>> loaded at the root.
WalkListed ==
    reload_result([new EXCEPT !.needs_reload = FALSE],
                  [ok |-> TRUE, files |-> <<F1, F2>>, parent_name |-> ParentName])

\* "Copy path" was chosen on the entry F2 of that listing.
InitWalk ==
    /\ app = [WalkListed EXCEPT !.pending_action = PendingCopyPath(F2.name, F2.parent_id),
                                !.modal = ModalLoading]
    /\ pc = "loop"
    /\ bridge = BridgeIdle
    /\ term = "tui"
    /\ hist = HistInit

\* The worker enters build_path_parts: the check of the starting id.
WalkEnter ==
    /\ pc = "spin"
    /\ bridge.call.kind = "CopyPath"
    /\ bridge.result = None
    /\ "walk" \notin DOMAIN bridge
    /\ IF bridge.call.parent_id < 0
       THEN bridge' = BridgeWalked(bridge.call,
                                   WalkErr("Path lookup failed: invalid parent id.", 0))
       ELSE \E remote \in WalkTrees :
                bridge' = BridgeWalking(bridge.call,
                                        Walk(remote, bridge.call.parent_id, 0, <<>>))
    /\ UNCHANGED <<app, pc, term, hist>>

\* The worker makes one pass through the while loop of build_path_parts.
WalkHop ==
    /\ pc = "spin"
    /\ "walk" \in DOMAIN bridge
    /\ bridge' = IF WalkReturn(bridge.walk) # None
                 THEN BridgeWalked(bridge.call, WalkReturn(bridge.walk)[1])
                 ELSE BridgeWalking(bridge.call, WalkOn(bridge.walk))
    /\ UNCHANGED <<app, pc, term, hist>>

NextWalk ==
    \/ LoopBridged
    \/ WalkEnter
    \/ WalkHop
    \/ SpinRecv

\* The worker thread and the bridge keep running.
SpecWalk == InitWalk /\ [][NextWalk]_vars /\ WF_vars(NextWalk)

\* The folder reached from `id` after n hops up the parent chain, 0 once the
\* chain has ended.
RECURSIVE After(_, _, _)
After(remote, id, n) ==
    IF n = 0 \/ id \notin FolderIds THEN id
    ELSE After(remote, remote[id].parent_id, n - 1)

\* The parent chain from `id` contains a cycle: it has not ended after as
\* many hops as there are folders (and every folder answers with a name).
ChainLoops(remote, id) ==
    /\ After(remote, id, Cardinality(FolderIds)) \in FolderIds
    /\ \A i \in FolderIds : remote[i].ok /\ remote[i].name # <<>>

\* The walk over a looping chain returns "parent loop detected".
LoopDetected ==
    ( /\ "walk" \in DOMAIN bridge
      /\ ChainLoops(bridge.walk.remote, bridge.call.parent_id)
      /\ bridge'.result # None )
    => /\ ~bridge'.result[1].ok
       /\ bridge'.result[1].msg = "Path lookup failed: parent loop detected."

\* The error a walk returned is the Error modal once the bridge returned.
WalkErrorShown ==
    ( /\ ValueSent
      /\ bridge.call.kind = "CopyPath"
      /\ ~bridge.result[1].ok
      /\ pc' = "poll" )
    => app'.modal = ModalError(bridge.result[1].msg)

\* C20: copy-path over a parent chain that contains a cycle (a folder that is
\* its own parent, or a longer chain looping back to an earlier folder)
\* terminates, fails with "parent loop detected", and that error is the Error
\* modal.
C20_LoopDetected ==
    /\ (pc = "spin") ~> (pc = "poll")
    /\ [][LoopDetected /\ WalkErrorShown]_vars

\* The errors build_path_parts returns.
PathErrors ==
    { "Path lookup failed: invalid parent id.",
      "Path lookup failed: path too deep.",
      "Path lookup failed: ",
      "Path lookup failed: missing folder name.",
      "Path lookup failed: parent loop detected." }

\* `parts` are the names of the folders from the top-level one down to
\* `id`, the immediate parent, in the structure `remote`.
TopDown(remote, id, parts) ==
    /\ After(remote, id, Len(parts)) = 0
    /\ \A k \in 1..Len(parts) :
           LET folder == After(remote, id, Len(parts) - k)
           IN /\ folder \in FolderIds
              /\ parts[k] = remote[folder].name

\* The walk has made no more list calls than the bound.
WalkBounded == ("walk" \in DOMAIN bridge) => bridge.walk.depth <= MaxPathDepth

\* What the walk returns: the top-down names after at most B calls, or one of
\* the path-lookup errors.
WalkAnswer ==
    ( /\ pc = "spin"
      /\ bridge.call.kind = "CopyPath"
      /\ bridge.result = None
      /\ bridge'.result # None )
    => LET r == bridge'.result[1]
       IN /\ r.calls <= MaxPathDepth
          /\ IF r.ok
             THEN /\ Len(r.parts) = r.calls
                  /\ TopDown(bridge.walk.remote, bridge.call.parent_id, r.parts)
             ELSE r.msg \in PathErrors

\* C21: the copy-path walk always terminates after at most B = 256 list
\* calls; it returns the folder names from the top-level folder down to the
\* immediate parent when the root is reached, or a path-lookup error.
C21_WalkTerminates ==
    /\ []WalkBounded
    /\ [][WalkAnswer]_vars
    /\ (pc = "spin") ~> (bridge.result # None)

\* C21 witness: a walk gave up after B list calls.
C21_Witness ==
    /\ bridge.result # None
    /\ bridge.result[1].calls = MaxPathDepth
    /\ bridge.result[1].msg = "Path lookup failed: path too deep."

\* The key event Ctrl-C.
CtrlC == Key("Char", "c", TRUE)

\* Whatever the modal, Ctrl-C only sets the lifecycle flag, and calls nothing
\* remote.
CtrlCOnlyQuits ==
    pc = "poll" =>
        /\ \A env \in Env : handle_key(app, CtrlC, env) = [app EXCEPT !.app_state = "Quitting"]
        /\ RemoteCallsInKey(app, CtrlC) = {}

\* The loop leaves run when the session is Quitting: no worker, no download.
QuittingExits == (pc = "loop" /\ app.app_state = "Quitting") => Exited'

\* C22: in every modal state, Loading included, Ctrl-C sets the lifecycle
\* flag to Quitting and changes nothing else, and the drive loop then exits
\* without starting a remote call.
C22_CtrlCQuits == []CtrlCOnlyQuits /\ [][QuittingExits]_vars

\* C22 witness: Ctrl-C was handled while the Loading modal was up with a
\* reload due; the loop is about to leave.
C22_Witness ==
    /\ pc = "loop"
    /\ app.app_state = "Quitting"
    /\ app.modal = ModalLoading
    /\ app.needs_reload

\* C23: while the modal is Loading, every key event but Ctrl-C leaves the
\* whole session unchanged.
C23_LoadingIgnoresKeys ==
    (pc = "poll" /\ app.modal.kind = "Loading") =>
        \A key \in Keys \ {CtrlC} : \A env \in Env : handle_key(app, key, env) = app

\* C23 witness: run has polled for a key under the Loading modal with a
\* reload due, and is back at the head of the loop with the same session.
C23_Witness ==
    /\ pc = "loop"
    /\ app.app_state = "Browsing"
    /\ app.modal = ModalLoading
    /\ app.needs_reload
    /\ app.files # <<>>

\* The key event Esc.
EscKey == Key("Esc", "", FALSE)

\* The modals that take input from the user.
InputModals == {"Find", "SearchInput", "FileActions", "ConfirmDelete"}

\* C24: Esc in an input modal (Find, SearchInput, FileActions, ConfirmDelete)
\* sets the modal to None and changes nothing else: no Error modal, the
\* pending action, cursor, breadcrumbs, snapshot, last search and lifecycle
\* flag are as before; no remote call is made or requested.
C24_EscCancels ==
    (pc = "poll" /\ app.modal.kind \in InputModals) =>
        /\ \A env \in Env : handle_key(app, EscKey, env) = [app EXCEPT !.modal = ModalNone]
        /\ RemoteCallsInKey(app, EscKey) = {}
        /\ ~Requested(app)

\* C24 witness: the Find modal holds a typed query that Enter would search
\* for; Esc is about to be handled.
C24_Witness ==
    /\ pc = "poll"
    /\ app.modal = ModalFind(<<"B">>)
    /\ app.last_search = None
    /\ Len(app.files) = 2
    /\ handle_key(app, Key("Enter", "", FALSE), DefaultEnv).selected_index # app.selected_index

\* The key event Enter.
EnterKey == Key("Enter", "", FALSE)

\* The session `a`, a reload due, after the next pass of run's loop loaded the
\* listing `r`: the frame is drawn, Loading is put up, spin_while draws and
\* returns r, and r is applied.
LoadAfter(a, r) ==
    reload_result(draw([draw(a) EXCEPT !.needs_reload = FALSE, !.modal = ModalLoading]), r)

\* Enter is about to be handled on a folder entry of the list.
OnFolder ==
    /\ pc = "poll"
    /\ app.modal.kind = "None"
    /\ selected_file(app) # None
    /\ selected_file(app)[1].file_type = "FOLDER"

\* C25: after enter_folder and the successful load of the entered folder the
\* cursor is at index 0: restore markers saved for another reload are not
\* consumed by this load.
C25_EnteredAtTop ==
    OnFolder =>
        \A r \in ListAnswers :
            r.ok => LoadAfter(handle_key(app, EnterKey, DefaultEnv), r).selected_index = 0

\* The session `a`, a delete pending, after the next pass of run's loop
\* carried the delete out with success: the frame is drawn, the action taken,
\* spin_while draws and returns Ok, and a reload is asked for.
DeleteAfter(a) ==
    delete_result(draw([draw(a) EXCEPT !.pending_action = PendingNone]), [ok |-> TRUE])

\* C26: after y/Y in ConfirmDelete with the cursor at c, a successful delete
\* and the successful reload that follows, the cursor is min(c, len - 1) of
\* the new snapshot, 0 if it is empty, from every reachable state.
C26_CursorKeptAfterDelete ==
    (pc = "poll" /\ app.modal.kind = "ConfirmDelete") =>
        \A key \in ConfirmKeys : \A r \in ListAnswers :
            r.ok =>
                LoadAfter(DeleteAfter(handle_key(app, key, DefaultEnv)), r).selected_index
                    = IF r.files = <<>> THEN 0
                      ELSE Min(app.selected_index, Len(r.files) - 1)

\* `name` is a name format!("Search: {}", query) produces.
IsSearchName(name) == name # <<>> /\ Head(name) = "Search: "

\* C27: in every reachable state the "showing search results" flag is true
\* exactly when the top breadcrumb is the virtual search node (id -1), and no
\* breadcrumb with a real folder id is named "Search: ...".
C27_FlagIffVirtualTop ==
    /\ app.is_search_results <=> (Top(app).id = SearchId)
    /\ \A i \in 1..Len(app.breadcrumbs) :
           app.breadcrumbs[i].id # SearchId => ~IsSearchName(app.breadcrumbs[i].name)

\* C28: the drive loop never fetches the listing of the virtual
\* search-results id: the folder of every reload is the root or a real
\* folder, never -1.
C28_NoVirtualFetch ==
    (pc = "spin" /\ bridge.call.kind = "Reload") => bridge.call.folder_id # SearchId

\* The key events Left and Backspace.
BackKeys == { Key("Left", "", FALSE), Key("Backspace", "", FALSE) }

\* C29: while browsing (modal None) with one breadcrumb, Left or Backspace is
\* a no-op: breadcrumbs, cursor, snapshot, modal and search flag are unchanged
\* and no listing fetch is started.
C29_BackAtRootNoOp ==
    (pc = "poll" /\ app.modal.kind = "None" /\ Len(app.breadcrumbs) = 1) =>
        \A key \in BackKeys :
            LET b == handle_key(app, key, DefaultEnv)
            IN /\ b.breadcrumbs = app.breadcrumbs
               /\ b.selected_index = app.selected_index
               /\ b.files = app.files
               /\ b.modal = app.modal
               /\ b.is_search_results = app.is_search_results
               /\ ~b.needs_reload

(* ----------------------- the loop keeps running ------------------------ *)

\* run's thread keeps running (event::poll times out when no key comes) and
\* so do the worker and the bridge.
SpecRun == Init /\ [][NextLive]_vars /\ BridgeFairness /\ WF_vars(Step)

\* The loop waits for a key under Loading only with a reload due or an action
\* pending.
LoadingHasCause ==
    (pc = "poll" /\ app.modal.kind = "Loading") => Requested(app)

\* C30: the Loading modal is never stuck: when the loop waits for input under
\* Loading a reload is due or an action is pending, and, the workers
\* delivering, every Loading state is followed by the modal None, Error or
\* Success (or by the end of run).
C30_LoadingEnds ==
    /\ []LoadingHasCause
    /\ (app.modal.kind = "Loading" /\ ~Exited)
           ~> (app.modal.kind \in {"None", "Error", "Success"} \/ Exited)

\* C30 witness: a delete succeeded; the loop waits for input under Loading,
\* the reload of the listing due.
C30_Witness ==
    /\ pc = "poll"
    /\ app.modal = ModalLoading
    /\ app.needs_reload
    /\ app.files # <<>>
    /\ app.restore_index # None

(* ------------------------- the action menu ---------------------------- *)

\* ui::draw, the FileActions overlay: the rows of draw_file_actions_modal,
\* each with its action and whether it carries the cursor mark.
draw_file_actions_modal(a) ==
    LET actions == file_actions_for(a.modal.file_type, a.is_search_results)
    IN [i \in 1..Len(actions) |->
           [label |-> actions[i].label, key |-> actions[i].key,
            is_sel |-> (i - 1 = a.modal.selected)]]

\* The key events that move the mark up, and down.
UpKeys == { Key("Up", "", FALSE), Key("Char", "k", FALSE) }

DownKeys == { Key("Down", "", FALSE), Key("Char", "j", FALSE) }

\* The selected index of the FileActions modal is an index of the action list.
SelectedInRange ==
    app.modal.kind = "FileActions" =>
        /\ app.modal.selected >= 0
        /\ app.modal.selected
               < Len(file_actions_for(app.modal.file_type, app.is_search_results))

\* Up/k and Down/j move the selected index by one, wrapping round, and change
\* nothing else.
MenuMoves ==
    (pc = "poll" /\ app.modal.kind = "FileActions") =>
        LET n == Len(file_actions_for(app.modal.file_type, app.is_search_results))
            m == app.modal
        IN \A env \in Env :
              /\ \A key \in UpKeys :
                     handle_key(app, key, env) =
                         [app EXCEPT !.modal = ModalFileActions(m.file_id, m.file_name,
                              m.file_type, (m.selected + n - 1) % n)]
              /\ \A key \in DownKeys :
                     handle_key(app, key, env) =
                         [app EXCEPT !.modal = ModalFileActions(m.file_id, m.file_name,
                              m.file_type, (m.selected + 1) % n)]

\* Enter carries out the action of the one row the renderer marks.
EnterRunsShown ==
    (pc = "poll" /\ app.modal.kind = "FileActions") =>
        LET rows   == draw_file_actions_modal(app)
            marked == { i \in 1..Len(rows) : rows[i].is_sel }
        IN /\ Cardinality(marked) = 1
           /\ \A i \in marked :
                 /\ FileActionOfKey(app, EnterKey) = rows[i].label
                 /\ \A env \in Env :
                        handle_key(app, EnterKey, env) =
                            execute_file_action([app EXCEPT !.modal = ModalNone],
                                                rows[i].label, app.modal.file_id, env)

\* C31: whenever the modal is FileActions its selected index is within
\* [0, n), n the length of the action list for the file's kind and the search
\* flag; Up/k and Down/j move it by one with wraparound and keep the file id,
\* name and kind; Enter runs the action at the selected index of the list the
\* renderer shows.
C31_MenuSelection == SelectedInRange /\ MenuMoves /\ EnterRunsShown

\* C31 witness: Up wrapped the mark from the first to the last row, "Go to
\* folder", of the menu of a search result.
C31_Witness ==
    /\ pc = "poll"
    /\ app.modal.kind = "FileActions"
    /\ app.is_search_results
    /\ app.modal.selected + 1 = Len(draw_file_actions_modal(app))
    /\ draw_file_actions_modal(app)[app.modal.selected + 1].label = "Go to folder"
    /\ draw_file_actions_modal(app)[app.modal.selected + 1].is_sel

(* --------------------------- go to folder ----------------------------- *)

\* The session `a`, a GoToFolder pending, after the pass of run's loop that
\* drains it: the frame is drawn, the action taken, navigate_to_folder called
\* and a reload asked for.
GoToAfter(a) ==
    [navigate_to_folder([draw(a) EXCEPT !.pending_action = PendingNone],
                        a.pending_action.parent_id, a.pending_action.file_id)
        EXCEPT !.needs_reload = TRUE]

\* The session the drained GoToFolder and the successful load after it lead
\* to: root and parent on the stack, the flag cleared, the cursor on the entry
\* asked for, the marker cleared.
GoToLoaded ==
    TakesPending("GoToFolder") =>
        \A r \in ListAnswers :
            r.ok =>
                LET parent_id == app.pending_action.parent_id
                    file_id   == app.pending_action.file_id
                    b         == LoadAfter(GoToAfter(app), r)
                    hits      == { i \in 1..Len(b.files) : b.files[i].id = file_id }
                IN /\ Len(b.breadcrumbs) = IF parent_id = RootId THEN 1 ELSE 2
                   /\ b.breadcrumbs[1].id = RootId
                   /\ Top(b).id = parent_id
                   /\ ~b.is_search_results
                   /\ IF hits # {} THEN b.selected_index + 1 \in hits
                      ELSE b.selected_index = 0
                   /\ b.pending_select_id = None

\* Once the load the marker was set for is over (the modal is no longer
\* Loading) the marker is gone, so that no later load finds it.
MarkerGone ==
    (pc = "poll" /\ app.modal.kind # "Loading") => app.pending_select_id = None

\* C32: after a GoToFolder{parent_id, file_id} is drained and the following
\* load succeeds, the breadcrumbs are [root] or [root, parent], the search
\* flag is cleared, the cursor is on the entry with id file_id (0 if absent)
\* and the select-after-load marker is cleared; the marker never survives to
\* a later, unrelated load.
C32_GoToFolderSelects == GoToLoaded /\ MarkerGone

(* ------------------------------ find next ----------------------------- *)

\* The key event 'n'.
NextKey == Key("Char", "n", FALSE)

\* A Find submission whose query matches no entry leaves the query that 'n'
\* replays as it was.
FailedFindKeepsQuery ==
    ( /\ pc = "poll"
      /\ app.modal.kind = "Find"
      /\ ~HasMatch(app.files, app.modal.query) )
    => handle_key(app, EnterKey, DefaultEnv).last_search = app.last_search

\* With no query to replay 'n' changes nothing.
NoQueryNoMove ==
    (pc = "poll" /\ app.modal.kind = "None" /\ app.last_search = None)
    => handle_key(app, NextKey, DefaultEnv) = app

\* C33: 'n' (find_next) replays the most recent find query that succeeded: a
\* Find submission whose query matched no entry does not change the query 'n'
\* replays, and with no successful find before, 'n' changes nothing.
C33_ReplaysSuccessfulFind == FailedFindKeepsQuery /\ NoQueryNoMove

(* ------------------------ the search snapshot ------------------------- *)

\* The same entries, possibly in another order (what sort_files does).
SameEntries(f, g) ==
    /\ Len(f) = Len(g)
    /\ { f[i] : i \in 1..Len(f) } = { g[i] : i \in 1..Len(g) }

\* A step gives the session a visible snapshot with the search flag set.
ShowsResults == app'.is_search_results /\ app'.modal.kind # "Loading" /\ ~Exited'

\* Under the search flag a visible snapshot comes from a successful search
\* call only: the step that shows other entries than before enters the
\* response of a search.
ResultsFromSearch ==
    (ShowsResults /\ ~SameEntries(app'.files, app.files))
    => (SearchApplied /\ app'.files = bridge.result[1].files)

\* C34: whenever the search flag is set and a snapshot is visible (the modal
\* is not Loading) the snapshot is the response of the most recent successful
\* search, never a folder listing; a successful delete from the results does
\* not replace them by the listing of the folder browsed before.
C34_SnapshotIsSearchResponse == [][ResultsFromSearch]_vars

=============================================================================
